---- MODULE Spec2Model ----
(***************************************************************************)
(* Realtime collaborative whiteboard: the browser participants of          *)
(* src/src/App.tsx (second App component, lines 337-610) and the relay of  *)
(* src/server.js.                                                          *)
(*                                                                         *)
(* Each participant keeps an append-only event log (events), the set of    *)
(* event ids it has seen (seenEventIds), a sequence counter (seqRef), a    *)
(* presence map (cursors) and the drawing flags.  The relay keeps the set  *)
(* of connections (wss.clients) with their readyState.  Messages in flight *)
(* are JSON texts in two FIFO queues per connection.                       *)
(***************************************************************************)
EXTENDS Integers, Sequences, FiniteSets, TLC

\* ------------------------------------------------------------------ bounds

\* Spec: events created by all participants, plus cursor frames in flight
MaxEvents == 4
\* frames a connection holds in one direction before its sender waits
MaxQueue == 1
\* SpecParticipant: entries of the log plus slots of the presence map
MaxLog == 6

\* ------------------------------------------------------------------ inputs

\* the App instances (browser tabs); each also names its connection
Users == {"u1", "u2", "u3"}

\* userIdRef: uuid().slice(0, 6), taken once per App instance
UserId(u) == u

\* userColorRef: a random hsl colour, taken once per App instance
UserColor(u) == <<"hsl", u, "70%", "50%">>

\* clientX / clientY of the mouse: where the button goes down, where it moves
DownPositions == {[x |-> 0, y |-> 0]}
MovePositions == {[x |-> 10, y |-> 10]}

VARIABLES
    events,            \* [Users -> Seq(StoredEvent)]   useState events
    seenEventIds,      \* [Users -> SUBSET ids]         seenEventIds.current
    seqRef,            \* [Users -> Nat]                seqRef.current
    uuidCount,         \* [Users -> Nat]                uuid() calls made so far
    cursors,           \* [Users -> [userIds -> CursorPresence]]
    isDrawing,         \* [Users -> BOOLEAN]
    currentStrokeId,   \* [Users -> strokeId or Null]
    readyState,        \* [Users -> client side WebSocket.readyState]
    clients,           \* [Users -> relay side state of the connection]
    toRelay,           \* [Users -> Seq(text)]  frames sent by the client, not yet received
    toClient           \* [Users -> Seq(text)]  frames sent by the relay, not yet received

vars == <<events, seenEventIds, seqRef, uuidCount, cursors, isDrawing,
          currentStrokeId, readyState, clients, toRelay, toClient>>

Null == <<"null">>

\* ------------------------------------------------------------------ JSON

\* the property order JSON.stringify writes, the insertion order of the
\* object literal: {...data, id, seq, userId} of createEvent, and the cursor
\* object of handleMouseMove
EventKeys == <<"type", "strokeId", "targetStrokeId", "targetUndoEventId", "x", "y",
               "id", "seq", "userId">>
CursorKeys == <<"type", "userId", "x", "y", "color">>

\* JSON.stringify(obj): the text as the sequence of its "key": value members
JSONstringify(obj) ==
    LET order == IF obj.type = "cursor" THEN CursorKeys ELSE EventKeys
        keys == SelectSeq(order, LAMBDA k : k \in DOMAIN obj)
    IN  [i \in 1..Len(keys) |-> <<keys[i], obj[keys[i]]>>]

\* JSON.parse(text) throws a SyntaxError on a text that is not JSON: one
\* with a member that is not a "key": value pair
ParseThrows(text) == \E i \in DOMAIN text : Len(text[i]) # 2

\* the value of a property the object does not have
undefined == <<"undefined">>

\* obj.key
Get(obj, key) == IF key \in DOMAIN obj THEN obj[key] ELSE undefined

\* JSON.parse(text): the object holding the members of the text
JSONparse(text) ==
    [k \in {text[i][1] : i \in DOMAIN text} |->
        text[CHOOSE i \in DOMAIN text : text[i][1] = k][2]]

\* ------------------------------------------------------------------ uuid

\* uuid(): a value no other call returns; the n-th call of instance u
uuid(u, n) == <<u, n>>

\* ------------------------------------------------------------------ redraw

RECURSIVE InsertBySeqBefore(_, _)
\* an insertion that places e before the elements of equal seq
InsertBySeqBefore(s, e) ==
    IF s = <<>> THEN <<e>>
    ELSE IF s[Len(s)].seq < e.seq THEN Append(s, e)
    ELSE Append(InsertBySeqBefore(SubSeq(s, 1, Len(s) - 1), e), s[Len(s)])

RECURSIVE InsertBySeq(_, _)
\* e placed after every element of the sorted s whose seq is <= e.seq
InsertBySeq(s, e) ==
    IF s = <<>> THEN <<e>>
    ELSE IF s[Len(s)].seq <= e.seq THEN Append(s, e)
    ELSE Append(InsertBySeq(SubSeq(s, 1, Len(s) - 1), e), s[Len(s)])

\* a redraw that draws the log in admission order
Unsorted(evs) == evs

RECURSIVE SortBySeq(_)
\* [...events].sort((a, b) => a.seq - b.seq): Array.prototype.sort is stable
SortBySeq(evs) ==
    IF evs = <<>> THEN <<>>
    ELSE InsertBySeq(SortBySeq(SubSeq(evs, 1, Len(evs) - 1)), evs[Len(evs)])

\* first loop of redraw: the targets of the redo events
RedoneUndoIds(ordered) ==
    {ordered[i].targetUndoEventId :
        i \in {j \in DOMAIN ordered : ordered[j].type = "redo"}}

\* a redraw in which a redo restores the stroke of the undo it targets,
\* whatever other undo events target that stroke
UndoneStrokesRestored(ordered) ==
    LET undos == {j \in DOMAIN ordered : ordered[j].type = "undo"}
        redone == {j \in undos : ordered[j].id \in RedoneUndoIds(ordered)}
    IN  {ordered[j].targetStrokeId : j \in undos}
            \ {ordered[j].targetStrokeId : j \in redone}

\* a redraw that ignores the redo events
UndoneStrokesNoRedo(ordered) ==
    {ordered[i].targetStrokeId :
        i \in {j \in DOMAIN ordered : ordered[j].type = "undo"}}

\* second loop of redraw: the targets of the undo events no redo targets
UndoneStrokes(ordered) ==
    {ordered[i].targetStrokeId :
        i \in {j \in DOMAIN ordered :
                 /\ ordered[j].type = "undo"
                 /\ ordered[j].id \notin RedoneUndoIds(ordered)}}

RECURSIVE OnePass(_, _)
\* the strokes hidden after the first n events of evs, taken one by one: an
\* undo hides its stroke, a redo shows the stroke of the undo it targets
\* when that undo was met before
OnePass(evs, n) ==
    IF n = 0 THEN {}
    ELSE LET e == evs[n]
             before == OnePass(evs, n - 1)
             met == SubSeq(evs, 1, n - 1)
         IN  IF e.type = "undo" THEN before \cup {e.targetStrokeId}
             ELSE IF e.type = "redo"
             THEN before \ {met[i].targetStrokeId :
                               i \in {j \in DOMAIN met : /\ met[j].type = "undo"
                                                         /\ met[j].id = e.targetUndoEventId}}
             ELSE before

\* a redraw that resolves undo and redo in one pass over the log as it is
HiddenStrokesOnePass(evs) == OnePass(evs, Len(evs))

\* undoneStrokes of redraw(events), after its first two loops
HiddenStrokes(evs) == UndoneStrokes(SortBySeq(evs))

\* third loop of redraw: the events that reach a canvas call, in order
Drawn(evs) ==
    LET ordered == SortBySeq(evs)
        undoneStrokes == UndoneStrokes(ordered)
    IN  SelectSeq(ordered, LAMBDA e :
            /\ ~("strokeId" \in DOMAIN e /\ e.strokeId \in undoneStrokes)
            /\ e.type \in {"stroke_start", "stroke_move", "stroke_end"})

\* ------------------------------------------------------------------ event core

\* ingestEvent without the seen check: every event is appended
IngestEventsAlways(u, event) == Append(events[u], event)

\* an ingestEvent whose updater puts the event first: [event, ...prev]
IngestEventsFirst(u, event) ==
    IF Get(event, "id") \in seenEventIds[u] THEN events[u] ELSE <<event>> \o events[u]

\* ingestEvent: the log and the seen set of u after ingest of event
IngestEvents(u, event) ==
    IF Get(event, "id") \in seenEventIds[u] THEN events[u] ELSE Append(events[u], event)

IngestSeen(u, event) ==
    IF Get(event, "id") \in seenEventIds[u] THEN seenEventIds[u]
    ELSE seenEventIds[u] \cup {Get(event, "id")}

\* a createEvent that reads seqRef.current without advancing it: every
\* event carries the first seq
createEventNoIncrement(u, data, n) ==
    data @@ [id |-> uuid(u, n), seq |-> 0, userId |-> UserId(u)]

\* createEvent: data with a fresh id, the next seq and the user id;
\* n is the number of uuid() calls made before it
createEvent(u, data, n) ==
    data @@ [id |-> uuid(u, n), seq |-> seqRef[u], userId |-> UserId(u)]

\* socketRef.current?.send(text): WebSocket.send throws while CONNECTING,
\* queues the frame while OPEN and discards it while CLOSING or CLOSED
SendThrows(u) == readyState[u] = "CONNECTING"

Sent(u, queue, text) ==
    IF readyState[u] = "OPEN" THEN Append(queue, text) ELSE queue

Created == LET RECURSIVE Sum(_)
               Sum(S) == IF S = {} THEN 0
                         ELSE LET u == CHOOSE v \in S : TRUE
                              IN  seqRef[u] + Sum(S \ {u})
           IN  Sum(Users)

\* a broadcastEvent that sends the event and leaves its ingest to the echo
BroadcastEventSendOnly(u, data, n, frames) ==
    LET event == createEvent(u, data, n)
    IN  /\ seqRef' = [seqRef EXCEPT ![u] = @ + 1]
        /\ uuidCount' = [uuidCount EXCEPT ![u] = n + 1]
        /\ UNCHANGED <<events, seenEventIds>>
        /\ toRelay' = [toRelay EXCEPT ![u] =
                          Sent(u, frames, JSONstringify(event))]

\* broadcastEvent(createEvent(data)) by u, after uuids uuid() calls, with
\* frames (the frames this handler already sent) queued before it
BroadcastEvent(u, data, n, frames) ==
    LET event == createEvent(u, data, n)
    IN  /\ seqRef' = [seqRef EXCEPT ![u] = @ + 1]
        /\ uuidCount' = [uuidCount EXCEPT ![u] = n + 1]
        /\ events' = [events EXCEPT ![u] = IngestEvents(u, event)]
        /\ seenEventIds' = [seenEventIds EXCEPT ![u] = IngestSeen(u, event)]
        /\ toRelay' = [toRelay EXCEPT ![u] =
                          Sent(u, frames, JSONstringify(event))]

\* ------------------------------------------------------------------ initial state

Init ==
    /\ events = [u \in Users |-> <<>>]
    /\ seenEventIds = [u \in Users |-> {}]
    /\ seqRef = [u \in Users |-> 0]
    /\ uuidCount = [u \in Users |-> 0]
    /\ cursors = [u \in Users |-> <<>>]
    /\ isDrawing = [u \in Users |-> FALSE]
    /\ currentStrokeId = [u \in Users |-> Null]
    /\ readyState = [u \in Users |-> "CONNECTING"]
    /\ clients = [u \in Users |-> "none"]
    /\ toRelay = [u \in Users |-> <<>>]
    /\ toClient = [u \in Users |-> <<>>]

\* ------------------------------------------------------------------ drawing

\* what a handler leaves alone when it only broadcasts one event
UnchangedByBroadcast == UNCHANGED <<cursors, readyState, clients, toClient>>

\* onMouseDown at position p
handleMouseDown(u, p) ==
    /\ LET strokeId == uuid(u, uuidCount[u])
       IN  /\ currentStrokeId' = [currentStrokeId EXCEPT ![u] = strokeId]
           /\ BroadcastEvent(u, [type |-> "stroke_start", strokeId |-> strokeId,
                                  x |-> p.x, y |-> p.y],
                              uuidCount[u] + 1, toRelay[u])
    /\ isDrawing' = [isDrawing EXCEPT ![u] = IF SendThrows(u) THEN @ ELSE TRUE]
    /\ UnchangedByBroadcast

\* onMouseMove at position p
handleMouseMove(u, p) ==
    LET cursor == [type |-> "cursor", userId |-> UserId(u), x |-> p.x, y |-> p.y,
                   color |-> UserColor(u)]
        frames == Sent(u, toRelay[u], JSONstringify(cursor))
    IN  IF SendThrows(u) THEN UNCHANGED vars
        ELSE IF ~isDrawing[u] \/ currentStrokeId[u] = Null
        THEN /\ toRelay' = [toRelay EXCEPT ![u] = frames]
             /\ UNCHANGED <<events, seenEventIds, seqRef, uuidCount, cursors, isDrawing,
                            currentStrokeId, readyState, clients, toClient>>
        ELSE /\ BroadcastEvent(u, [type |-> "stroke_move",
                                    strokeId |-> currentStrokeId[u],
                                    x |-> p.x, y |-> p.y],
                                uuidCount[u], frames)
             /\ UnchangedByBroadcast
             /\ UNCHANGED <<isDrawing, currentStrokeId>>

\* onMouseUp, onMouseLeave
stopDrawing(u) ==
    IF ~isDrawing[u] \/ currentStrokeId[u] = Null THEN UNCHANGED vars
    ELSE /\ BroadcastEvent(u, [type |-> "stroke_end", strokeId |-> currentStrokeId[u]],
                            uuidCount[u], toRelay[u])
         /\ currentStrokeId' = [currentStrokeId EXCEPT ![u] =
                                   IF SendThrows(u) THEN @ ELSE Null]
         /\ isDrawing' = [isDrawing EXCEPT ![u] = IF SendThrows(u) THEN @ ELSE FALSE]
         /\ UnchangedByBroadcast
     
\* ------------------------------------------------------------------ undo / redo

\* the backward scans without the test of e.userId
LastAny(u, type) ==
    LET any == {i \in DOMAIN events[u] : events[u][i].type = type}
    IN  IF any = {} THEN 0 ELSE CHOOSE i \in any : \A j \in any : j <= i

\* the backward scans of handleUndo and handleRedo: the greatest index of the
\* log of u holding an event of that type created by u, 0 when there is none
LastOwn(u, type) ==
    LET own == {i \in DOMAIN events[u] :
                  events[u][i].type = type /\ events[u][i].userId = UserId(u)}
    IN  IF own = {} THEN 0 ELSE CHOOSE i \in own : \A j \in own : j <= i

\* the scan of handleUndo had it skipped the strokes that are already
\* undone: the greatest index of an own stroke_end of a stroke not undone
LastOwnNotUndone(u) ==
    LET own == {i \in DOMAIN events[u] :
                  /\ events[u][i].type = "stroke_end"
                  /\ events[u][i].userId = UserId(u)
                  /\ events[u][i].strokeId \notin UndoneStrokes(events[u])}
    IN  IF own = {} THEN 0 ELSE CHOOSE i \in own : \A j \in own : j <= i

\* an Undo button with last-in-first-out targets
handleUndoLifo(u) ==
    LET i == LastOwnNotUndone(u)
    IN  IF i = 0 THEN UNCHANGED vars
        ELSE /\ BroadcastEvent(u, [type |-> "undo", targetStrokeId |-> events[u][i].strokeId],
                               uuidCount[u], toRelay[u])
             /\ UnchangedByBroadcast
             /\ UNCHANGED <<isDrawing, currentStrokeId>>

\* an Undo button that emits an undo when the scan finds no target
handleUndoEager(u) ==
    LET i == LastOwn(u, "stroke_end")
    IN  /\ BroadcastEvent(u, [type |-> "undo",
                               targetStrokeId |-> IF i = 0 THEN Null
                                                  ELSE events[u][i].strokeId],
                           uuidCount[u], toRelay[u])
        /\ UnchangedByBroadcast
        /\ UNCHANGED <<isDrawing, currentStrokeId>>

\* onClick of the Undo button
handleUndo(u) ==
    LET i == LastOwn(u, "stroke_end")
    IN  IF i = 0 THEN UNCHANGED vars
        ELSE /\ BroadcastEvent(u, [type |-> "undo", targetStrokeId |-> events[u][i].strokeId],
                               uuidCount[u], toRelay[u])
             /\ UnchangedByBroadcast
             /\ UNCHANGED <<isDrawing, currentStrokeId>>

\* onClick of the Redo button
handleRedo(u) ==
    LET i == LastOwn(u, "undo")
    IN  IF i = 0 THEN UNCHANGED vars
        ELSE /\ BroadcastEvent(u, [type |-> "redo", targetUndoEventId |-> events[u][i].id],
                               uuidCount[u], toRelay[u])
             /\ UnchangedByBroadcast
             /\ UNCHANGED <<isDrawing, currentStrokeId>>

\* ------------------------------------------------------------------ inbound

\* an updater that keeps the slot a user already has
SetCursorKeep(prev, data) == prev @@ (Get(data, "userId") :> data)

\* the updater of setCursors: ({ ...prev, [data.userId]: data })
SetCursor(prev, data) == (Get(data, "userId") :> data) @@ prev

\* a handler that takes every object carrying an id for an event
HandledById(u, msgData) ==
    IF ParseThrows(msgData) THEN UNCHANGED <<events, seenEventIds, cursors>>
    ELSE LET data == JSONparse(msgData)
         IN  IF "id" \notin DOMAIN data /\ Get(data, "type") = "cursor"
             THEN /\ cursors' = [cursors EXCEPT ![u] =
                                    IF Get(data, "userId") = UserId(u) THEN @
                                    ELSE (Get(data, "userId") :> data) @@ @]
                  /\ UNCHANGED <<events, seenEventIds>>
             ELSE /\ events' = [events EXCEPT ![u] = IngestEvents(u, data)]
                  /\ seenEventIds' = [seenEventIds EXCEPT ![u] = IngestSeen(u, data)]
                  /\ UNCHANGED cursors

\* socket.onmessage of u for a frame whose text is msgData; when JSON.parse
\* throws, the handler ends there, for this frame only
Handled(u, msgData) ==
    IF ParseThrows(msgData) THEN UNCHANGED <<events, seenEventIds, cursors>>
    ELSE LET data == JSONparse(msgData)
         IN  IF Get(data, "type") = "cursor"
             THEN /\ cursors' = [cursors EXCEPT ![u] =
                                    IF Get(data, "userId") = UserId(u) THEN @
                                    ELSE SetCursor(@, data)]
                  /\ UNCHANGED <<events, seenEventIds>>
             ELSE /\ events' = [events EXCEPT ![u] = IngestEvents(u, data)]
                  /\ seenEventIds' = [seenEventIds EXCEPT ![u] = IngestSeen(u, data)]
                  /\ UNCHANGED cursors

\* the frame at the head of the queue of u reaches socket.onmessage
onmessage(u) ==
    /\ readyState[u] = "OPEN"
    /\ toClient[u] # <<>>
    /\ toClient' = [toClient EXCEPT ![u] = Tail(@)]
    /\ Handled(u, Head(toClient[u]))
    /\ UNCHANGED <<seqRef, uuidCount, isDrawing, currentStrokeId, readyState, clients,
                   toRelay>>

\* ------------------------------------------------------------------ connection

UnchangedApp ==
    UNCHANGED <<events, seenEventIds, seqRef, uuidCount, cursors, isDrawing,
                currentStrokeId>>

\* the relay accepts the connection of u: wss.on("connection") runs and ws
\* joins wss.clients with readyState OPEN (1)
connection(u) ==
    /\ readyState[u] = "CONNECTING"
    /\ clients[u] = "none"
    /\ clients' = [clients EXCEPT ![u] = "OPEN"]
    /\ UNCHANGED <<readyState, toRelay, toClient>>
    /\ UnchangedApp

\* socket.onopen
onopen(u) ==
    /\ readyState[u] = "CONNECTING"
    /\ clients[u] = "OPEN"
    /\ readyState' = [readyState EXCEPT ![u] = "OPEN"]
    /\ UNCHANGED <<clients, toRelay, toClient>>
    /\ UnchangedApp

\* the socket of u closes: socket.close() of the effect cleanup, or the
\* connection is lost; socket.onclose
onclose(u) ==
    /\ readyState[u] \in {"CONNECTING", "OPEN"}
    /\ readyState' = [readyState EXCEPT ![u] = "CLOSED"]
    /\ UNCHANGED <<clients, toRelay, toClient>>
    /\ UnchangedApp

\* the relay sees the close of u: ws.readyState becomes CLOSING (2), ws is
\* still in wss.clients; frames of u not yet received are lost
relayClosing(u) ==
    /\ readyState[u] = "CLOSED"
    /\ clients[u] = "OPEN"
    /\ clients' = [clients EXCEPT ![u] = "CLOSING"]
    /\ toRelay' = [toRelay EXCEPT ![u] = <<>>]
    /\ UNCHANGED <<readyState, toClient>>
    /\ UnchangedApp

\* the relay drops the closed connection from wss.clients
relayClosed(u) ==
    /\ clients[u] = "CLOSING"
    /\ clients' = [clients EXCEPT ![u] = "none"]
    /\ toClient' = [toClient EXCEPT ![u] = <<>>]
    /\ UNCHANGED <<readyState, toRelay>>
    /\ UnchangedApp

\* ------------------------------------------------------------------ relay

\* a fan-out without the test of client.readyState
RecipientsInClients(u) == {c \in Users : c # u /\ clients[c] \in {"OPEN", "CLOSING"}}

\* a fan-out with the test client === ws: the frame goes back to its sender
RecipientsSelf(u) == {c \in Users : c = u /\ clients[c] = "OPEN"}

\* a fan-out that does not leave out the sender
RecipientsAll(u) == {c \in Users : clients[c] = "OPEN"}

\* the connections ws.on("message") of connection u sends msg to
Recipients(u) == {c \in Users : c # u /\ clients[c] = "OPEN"}

\* ws.on("message") of connection u: the frame at the head of its queue
message(u) ==
    /\ clients[u] = "OPEN"
    /\ toRelay[u] # <<>>
    /\ toRelay' = [toRelay EXCEPT ![u] = Tail(@)]
    /\ toClient' = [c \in Users |->
                      IF c \in Recipients(u) THEN Append(toClient[c], Head(toRelay[u]))
                      ELSE toClient[c]]
    /\ UNCHANGED <<readyState, clients>>
    /\ UnchangedApp

\* ------------------------------------------------------------------ specification

\* Spec: two participants and the relay.  A handler runs while the events
\* created so far and the cursor frames in flight leave room for one more.
Participants == {"u1", "u2"}

CursorFrames(queue) ==
    Cardinality({i \in DOMAIN queue : queue[i][1] = <<"type", "cursor">>})

InFlight == LET RECURSIVE Sum(_)
                Sum(S) == IF S = {} THEN 0
                          ELSE LET u == CHOOSE v \in S : TRUE
                               IN  CursorFrames(toRelay[u]) + CursorFrames(toClient[u])
                                   + Sum(S \ {u})
            IN  Sum(Users)

Room(u) == Created + InFlight < MaxEvents /\ Len(toRelay[u]) < MaxQueue

RelayRoom(u) == \A c \in Recipients(u) : Len(toClient[c]) < MaxQueue

Next ==
    \/ \E u \in Participants, p \in DownPositions : Room(u) /\ handleMouseDown(u, p)
    \/ \E u \in Participants, p \in MovePositions : Room(u) /\ handleMouseMove(u, p)
    \/ \E u \in Participants : Room(u) /\ stopDrawing(u)
    \/ \E u \in Participants : Room(u) /\ handleUndo(u)
    \/ \E u \in Participants : Room(u) /\ handleRedo(u)
    \/ \E u \in Participants : onmessage(u)
    \/ \E u \in Participants : connection(u)
    \/ \E u \in Participants : onopen(u)
    \/ \E u \in Participants : onclose(u)
    \/ \E u \in Participants : relayClosing(u)
    \/ \E u \in Participants : relayClosed(u)
    \/ \E u \in Participants : RelayRoom(u) /\ message(u)

Spec == Init /\ [][Next]_vars

\* the frames in flight: those the relay has not taken yet and those it has
\* forwarded to a connection that has not handled them yet
Frames == LET RECURSIVE Sum(_)
              Sum(S) == IF S = {} THEN 0
                        ELSE LET u == CHOOSE v \in S : TRUE
                             IN  Len(toRelay[u]) + Len(toClient[u]) + Sum(S \ {u})
          IN  Sum(Users)

FrameRoom == Frames < MaxQueue

\* SpecRelay: three connections whose users only move the mouse, so that
\* every frame is a cursor frame; the relay and the connections as in Spec.
\* A user sends while fewer than MaxQueue frames are in flight; the relay
\* forwards every frame it takes to all its recipients.
NextRelay ==
    \/ \E u \in Users, p \in MovePositions : FrameRoom /\ handleMouseMove(u, p)
    \/ \E u \in Users : onmessage(u)
    \/ \E u \in Users : connection(u)
    \/ \E u \in Users : onopen(u)
    \/ \E u \in Users : onclose(u)
    \/ \E u \in Users : relayClosing(u)
    \/ \E u \in Users : relayClosed(u)
    \/ \E u \in Users : message(u)

SpecRelay == Init /\ [][NextRelay]_vars

\* SpecParticipant: one participant, connected, whose peers are arbitrary:
\* the relay forwards whatever a connection sends, so any frame can arrive,
\* in any order, and a frame that arrived can arrive again.
Me == "u1"

\* the events a peer u2 creates for one stroke, its undo and its redo
PeerEvents ==
    LET S == uuid("u2", 0)
    IN  { [type |-> "stroke_start", strokeId |-> S, x |-> 0, y |-> 0,
           id |-> uuid("u2", 1), seq |-> 0, userId |-> "u2"],
          [type |-> "stroke_end", strokeId |-> S,
           id |-> uuid("u2", 2), seq |-> 1, userId |-> "u2"],
          [type |-> "undo", targetStrokeId |-> S,
           id |-> uuid("u2", 3), seq |-> 2, userId |-> "u2"],
          [type |-> "redo", targetUndoEventId |-> uuid("u2", 3),
           id |-> uuid("u2", 4), seq |-> 3, userId |-> "u2"] }

\* the cursor frames of the peers, and one carrying the participant's own id
PeerCursors ==
    { [type |-> "cursor", userId |-> UserId(u), x |-> p.x, y |-> p.y,
       color |-> UserColor(u)] : u \in Users, p \in DownPositions \cup MovePositions }

\* the frames that can arrive: those of the peers, and again any event
\* the participant already holds
Arrivals ==
    {JSONstringify(o) : o \in PeerEvents \cup PeerCursors}
        \cup {JSONstringify(events[Me][i]) : i \in DOMAIN events[Me]}

LogRoom == Len(events[Me]) + Cardinality(DOMAIN cursors[Me]) < MaxLog

\* a frame arrives and socket.onmessage handles it
arrival(msgData) ==
    /\ readyState[Me] = "OPEN"
    /\ toClient[Me] = <<>>
    /\ Handled(Me, msgData)
    /\ UNCHANGED <<seqRef, uuidCount, isDrawing, currentStrokeId, readyState, clients,
                   toRelay, toClient>>

InitParticipant ==
    /\ events = [u \in Users |-> <<>>]
    /\ seenEventIds = [u \in Users |-> {}]
    /\ seqRef = [u \in Users |-> 0]
    /\ uuidCount = [u \in Users |-> 0]
    /\ cursors = [u \in Users |-> <<>>]
    /\ isDrawing = [u \in Users |-> FALSE]
    /\ currentStrokeId = [u \in Users |-> Null]
    /\ readyState = [u \in Users |-> IF u = Me THEN "OPEN" ELSE "CONNECTING"]
    /\ clients = [u \in Users |-> IF u = Me THEN "OPEN" ELSE "none"]
    /\ toRelay = [u \in Users |-> <<>>]
    /\ toClient = [u \in Users |-> <<>>]

MyRoom == LogRoom /\ Len(toRelay[Me]) < MaxQueue

NextParticipant ==
    \/ \E p \in DownPositions : MyRoom /\ handleMouseDown(Me, p)
    \/ \E p \in MovePositions : MyRoom /\ handleMouseMove(Me, p)
    \/ MyRoom /\ stopDrawing(Me)
    \/ MyRoom /\ handleUndo(Me)
    \/ MyRoom /\ handleRedo(Me)
    \/ \E msgData \in Arrivals : LogRoom /\ arrival(msgData)
    \/ message(Me)

SpecParticipant == InitParticipant /\ [][NextParticipant]_vars

\* SpecInbound: one participant, connected, whose peers need not run this
\* client: the relay forwards any payload, so beside the frames of
\* SpecParticipant there arrive a text that is not JSON, an event object
\* without id, an event of a type this client does not know, and a cursor
\* object that carries the id and seq of an event.
Truncated(text) ==
    [i \in DOMAIN text |-> IF i = Len(text) THEN <<text[i][1]>> ELSE text[i]]

PeerStroke == uuid("u2", 0)

UnparseableFrames ==
    {Truncated(JSONstringify([type |-> "stroke_start", strokeId |-> PeerStroke,
                              x |-> 0, y |-> 0, id |-> uuid("u2", 1), seq |-> 0,
                              userId |-> "u2"]))}

MalformedFrames ==
    {JSONstringify([type |-> "stroke_move", strokeId |-> PeerStroke, x |-> 10, y |-> 10,
                    seq |-> 1, userId |-> "u2"])}

UnknownFrames ==
    {JSONstringify([type |-> "clear", id |-> uuid("u2", 5), seq |-> 4, userId |-> "u2"])}

StrayFrames ==
    {JSONstringify([type |-> "cursor", userId |-> "u2", x |-> 0, y |-> 0,
                    color |-> UserColor("u2")])
        \o << <<"id", uuid("u2", 1)>>, <<"seq", 0>> >>}

\* the cursor frames of one peer, and one carrying the participant's own id
InboundCursors ==
    { [type |-> "cursor", userId |-> UserId(u), x |-> p.x, y |-> p.y,
       color |-> UserColor(u)] : u \in Participants, p \in MovePositions }

InboundFrames ==
    {JSONstringify(o) : o \in PeerEvents \cup InboundCursors}
        \cup UnparseableFrames \cup MalformedFrames \cup UnknownFrames \cup StrayFrames

\* the relay forwards a frame of a peer to the participant: client.send
deliver(msgData) ==
    /\ clients[Me] = "OPEN"
    /\ toClient' = [toClient EXCEPT ![Me] = Append(@, msgData)]
    /\ UNCHANGED <<readyState, clients, toRelay>>
    /\ UnchangedApp

NextInbound ==
    \/ \E p \in DownPositions : MyRoom /\ handleMouseDown(Me, p)
    \/ \E p \in MovePositions : MyRoom /\ handleMouseMove(Me, p)
    \/ MyRoom /\ stopDrawing(Me)
    \/ MyRoom /\ handleUndo(Me)
    \/ MyRoom /\ handleRedo(Me)
    \/ \E msgData \in InboundFrames :
          LogRoom /\ Len(toClient[Me]) < MaxQueue /\ deliver(msgData)
    \/ onmessage(Me)
    \/ message(Me)

SpecInbound == InitParticipant /\ [][NextInbound]_vars

\* SpecOrder: two participants, connected, that receive the frames of one
\* peer, each in any order and any number of times.
Receivers == {"u1", "u3"}

InitOrder ==
    /\ events = [u \in Users |-> <<>>]
    /\ seenEventIds = [u \in Users |-> {}]
    /\ seqRef = [u \in Users |-> 0]
    /\ uuidCount = [u \in Users |-> 0]
    /\ cursors = [u \in Users |-> <<>>]
    /\ isDrawing = [u \in Users |-> FALSE]
    /\ currentStrokeId = [u \in Users |-> Null]
    /\ readyState = [u \in Users |-> IF u \in Receivers THEN "OPEN" ELSE "CONNECTING"]
    /\ clients = [u \in Users |-> IF u \in Receivers THEN "OPEN" ELSE "none"]
    /\ toRelay = [u \in Users |-> <<>>]
    /\ toClient = [u \in Users |-> <<>>]

\* a frame arrives at u and socket.onmessage handles it
received(u, msgData) ==
    /\ readyState[u] = "OPEN"
    /\ toClient[u] = <<>>
    /\ Handled(u, msgData)
    /\ UNCHANGED <<seqRef, uuidCount, isDrawing, currentStrokeId, readyState, clients,
                   toRelay, toClient>>

NextOrder ==
    \E u \in Receivers : \E e \in PeerEvents : received(u, JSONstringify(e))

SpecOrder == InitOrder /\ [][NextOrder]_vars

\* SpecConverge: the participants are connected from the start and stay
\* connected.  The relay handles every frame it was sent and a participant
\* every frame it was forwarded (the event loops of the relay and of the
\* browser run every handler that is due); nothing obliges a user to act.
InitConverge ==
    /\ events = [u \in Users |-> <<>>]
    /\ seenEventIds = [u \in Users |-> {}]
    /\ seqRef = [u \in Users |-> 0]
    /\ uuidCount = [u \in Users |-> 0]
    /\ cursors = [u \in Users |-> <<>>]
    /\ isDrawing = [u \in Users |-> FALSE]
    /\ currentStrokeId = [u \in Users |-> Null]
    /\ readyState = [u \in Users |-> IF u \in Participants THEN "OPEN" ELSE "CONNECTING"]
    /\ clients = [u \in Users |-> IF u \in Participants THEN "OPEN" ELSE "none"]
    /\ toRelay = [u \in Users |-> <<>>]
    /\ toClient = [u \in Users |-> <<>>]

NextConverge ==
    \/ \E u \in Participants, p \in DownPositions : Room(u) /\ handleMouseDown(u, p)
    \/ \E u \in Participants, p \in MovePositions : Room(u) /\ handleMouseMove(u, p)
    \/ \E u \in Participants : Room(u) /\ stopDrawing(u)
    \/ \E u \in Participants : Room(u) /\ handleUndo(u)
    \/ \E u \in Participants : Room(u) /\ handleRedo(u)
    \/ \E u \in Participants : onmessage(u)
    \/ \E u \in Participants : RelayRoom(u) /\ message(u)

SpecConverge ==
    /\ InitConverge
    /\ [][NextConverge]_vars
    /\ \A u \in Participants : WF_vars(onmessage(u))
    /\ \A u \in Participants : WF_vars(RelayRoom(u) /\ message(u))

\* ------------------------------------------------------------------ claims

StrokeTypes == {"stroke_start", "stroke_move", "stroke_end"}

\* the indices of log holding an event of that type
Of(log, type) == {i \in DOMAIN log : log[i].type = type}

\* the indices of log holding a stroke-bearing event of stroke S
OfStroke(log, S) == {i \in DOMAIN log : log[i].type \in StrokeTypes /\ log[i].strokeId = S}

\* the strokes the log holds an event of
Strokes(log) == {log[i].strokeId : i \in {j \in DOMAIN log : log[j].type \in StrokeTypes}}

Ids(log) == {log[i].id : i \in DOMAIN log}

\* log without the entries at the indices in gone
Without(log, gone) ==
    LET RECURSIVE Keep(_)
        Keep(n) == IF n = 0 THEN <<>>
                   ELSE IF n \in gone THEN Keep(n - 1)
                   ELSE Append(Keep(n - 1), log[n])
    IN  Keep(Len(log))

\* C1: idempotent ingest.  Every log holds exactly one entry per event id it
\* has seen, and the ingest of a frame whose id was seen (an event of the
\* participant itself or of a peer, arriving again) leaves the log, the seen
\* set and the drawn events as they are.
C1_Idempotent ==
    \A u \in Users :
        /\ \A i, j \in DOMAIN events[u] : events[u][i].id = events[u][j].id => i = j
        /\ Ids(events[u]) = seenEventIds[u]
        /\ \A i \in DOMAIN events[u] :
              LET again == JSONparse(JSONstringify(events[u][i]))
              IN  /\ IngestEvents(u, again) = events[u]
                  /\ IngestSeen(u, again) = seenEventIds[u]
                  /\ Drawn(IngestEvents(u, again)) = Drawn(events[u])

\* a log with an event of the participant and an event of a peer, each of
\* which can arrive again
C1_Witness ==
    /\ \E i \in DOMAIN events[Me] : events[Me][i].userId = UserId(Me)
    /\ \E i \in DOMAIN events[Me] : events[Me][i].userId # UserId(Me)
    /\ Len(events[Me]) >= 4

\* C3: undo hides, redo restores.  An undo event no redo targets leaves no
\* event of its stroke among the drawn events (none at all when the log
\* holds no other stroke); with a redo targeting the undo in the log, the
\* drawn events are those of the log without the undo and the redo, in the
\* same order.
C3_UndoHidesRedoRestores ==
    \A u \in Users :
        LET log == events[u]
        IN  /\ \A i \in Of(log, "undo") :
                  (\A j \in Of(log, "redo") : log[j].targetUndoEventId # log[i].id)
                  => /\ \A k \in DOMAIN Drawn(log) :
                            Drawn(log)[k].strokeId # log[i].targetStrokeId
                     /\ Strokes(log) \subseteq {log[i].targetStrokeId}
                            => Drawn(log) = <<>>
            /\ \A i \in Of(log, "undo") : \A j \in Of(log, "redo") :
                  log[j].targetUndoEventId = log[i].id
                  => Drawn(log) = Drawn(Without(log, {i, j}))

\* the start, move and end of one stroke, its undo and the redo of that
\* undo: the three stroke events are drawn again, in their order
C3_Witness ==
    LET log == events[Me]
    IN  /\ Len(log) = 5
        /\ [i \in 1..5 |-> log[i].type] =
              <<"stroke_start", "stroke_move", "stroke_end", "undo", "redo">>
        /\ log[4].targetStrokeId = log[1].strokeId
        /\ log[5].targetUndoEventId = log[4].id
        /\ Drawn(log) = SubSeq(log, 1, 3)

\* the log of u draws no event of stroke S
Hidden(u, S) == \A k \in DOMAIN Drawn(events[u]) : Drawn(events[u])[k].strokeId # S

\* the log of u draws every event it holds of stroke S
Shown(u, S) ==
    \A i \in OfStroke(events[u], S) :
        \E k \in DOMAIN Drawn(events[u]) : Drawn(events[u])[k] = events[u][i]

\* the undo events of log that target S and that no redo of log targets
LiveUndos(log, S) ==
    {i \in Of(log, "undo") :
        /\ log[i].targetStrokeId = S
        /\ \A j \in Of(log, "redo") : log[j].targetUndoEventId # log[i].id}

\* C4: multi-undo requires full redo.  A stroke of the log is hidden if and
\* only if some undo event targeting it is targeted by no redo event, and is
\* drawn in full otherwise.
C4_HiddenIffLiveUndo ==
    \A u \in Users : \A S \in Strokes(events[u]) :
        /\ Hidden(u, S) <=> LiveUndos(events[u], S) # {}
        /\ Shown(u, S) <=> LiveUndos(events[u], S) = {}

\* two undo events on one stroke, one of them redone: the stroke is hidden
C4_Witness ==
    \E S \in Strokes(events[Me]) :
        /\ Hidden(Me, S)
        /\ Cardinality(LiveUndos(events[Me], S)) = 1
        /\ \E i \in Of(events[Me], "undo") :
              /\ events[Me][i].targetStrokeId = S
              /\ i \notin LiveUndos(events[Me], S)

\* the indices of log holding an event of that type created by u
Own(u, type) ==
    {i \in DOMAIN events[u] :
        events[u][i].type = type /\ events[u][i].userId = UserId(u)}

\* the greatest index of I below j, 0 when there is none
Before(I, j) ==
    LET lower == {i \in I : i < j}
    IN  IF lower = {} THEN 0 ELSE CHOOSE i \in lower : \A k \in lower : k <= i

\* C5: the undo target is the most recent own stroke_end, undone or not.
\* Every undo event a participant created targets the stroke of the last
\* stroke_end it created before; so with strokes A then B completed, two undo
\* requests in a row both target B, and A is still drawn in full.
C5_UndoRetargets ==
    \A u \in Users :
        LET log == events[u]
            ends == Own(u, "stroke_end")
            undos == Own(u, "undo")
        IN  /\ \A j \in undos :
                  /\ Before(ends, j) # 0
                  /\ log[j].targetStrokeId = log[Before(ends, j)].strokeId
            /\ \A a, b \in ends :
                  (a < b /\ \A j \in undos : b < j /\ Before(ends, j) = b)
                  => /\ \A j \in undos : log[j].targetStrokeId = log[b].strokeId
                     /\ Shown(u, log[a].strokeId)

\* strokes A then B completed, then two undo events, both targeting B, and
\* A drawn in full
C5_Witness ==
    LET log == events[Me]
    IN  \E a, b \in Own(Me, "stroke_end") : \E i, j \in Own(Me, "undo") :
            /\ a < b /\ b < i /\ i < j
            /\ log[a].strokeId # log[b].strokeId
            /\ log[i].targetStrokeId = log[b].strokeId
            /\ log[j].targetStrokeId = log[b].strokeId
            /\ Shown(Me, log[a].strokeId)
            /\ Hidden(Me, log[b].strokeId)

\* C6 as claimed: every redo event a participant created targets its own
\* most recent undo event, and no earlier redo of the log targets that undo.
C6_RedoTargetsLatestLiveUndo ==
    \A u \in Users :
        LET log == events[u]
        IN  \A j \in Own(u, "redo") :
                LET i == Before(Own(u, "undo"), j)
                IN  /\ i # 0
                    /\ log[j].targetUndoEventId = log[i].id
                    /\ \A k \in Of(log, "redo") :
                          k < j => log[k].targetUndoEventId # log[i].id

\* C6 amended: every redo event a participant created targets the most
\* recent undo event it created before, whether or not a redo already
\* targets that undo; never an undo of another user, never an older own one.
C6_RedoTargetsLatestOwnUndo ==
    \A u \in Users :
        LET log == events[u]
        IN  \A j \in Own(u, "redo") :
                LET i == Before(Own(u, "undo"), j)
                IN  /\ i # 0
                    /\ log[j].targetUndoEventId = log[i].id
                    /\ log[i].userId = UserId(u)
                    /\ \A k \in Of(log, "undo") :
                          log[j].targetUndoEventId = log[k].id => k = i

\* a redo created after an own undo and a later undo of a peer: it targets
\* the own undo
C6_Witness ==
    LET log == events[Me]
    IN  \E i \in Own(Me, "undo") : \E k \in Of(log, "undo") : \E j \in Own(Me, "redo") :
            /\ i < k /\ k < j
            /\ log[k].userId # UserId(Me)
            /\ log[j].targetUndoEventId = log[i].id

\* C8: presence overwrite.  Whatever cursor message of another user arrives
\* next, the slot of its userId then holds its x, y and color, and every
\* other slot of the map is as before.
C8_PresenceOverwrite ==
    \A u \in Users : \A data \in PeerCursors :
        data.userId # UserId(u) =>
            LET next == SetCursor(cursors[u], JSONparse(JSONstringify(data)))
            IN  /\ DOMAIN next = DOMAIN cursors[u] \cup {data.userId}
                /\ next[data.userId].x = data.x
                /\ next[data.userId].y = data.y
                /\ next[data.userId].color = data.color
                /\ \A q \in DOMAIN cursors[u] :
                      /\ q # data.userId => next[q] = cursors[u][q]
                      /\ cursors[u][q].userId = q
                      /\ q # UserId(u)

\* the map holds the slots of two users, with different positions, each of
\* which the next cursor message of its user overwrites
C8_Witness ==
    /\ DOMAIN cursors[Me] = {"u2", "u3"}
    /\ cursors[Me]["u2"].x = 10
    /\ cursors[Me]["u3"].x = 0

\* C9: requests without a target are no-ops.  A participant whose log holds
\* no stroke_end of its own has created no undo event, one whose log holds
\* no undo of its own has created no redo event; each seq it has used is the
\* seq of one event of its log, and each event frame it has sent is an event
\* of its log.
C9_NoTargetNoOp ==
    \A u \in Users :
        LET log == events[u]
            own == {i \in DOMAIN log : log[i].userId = UserId(u)}
        IN  /\ Own(u, "stroke_end") = {} => Own(u, "undo") = {}
            /\ Own(u, "undo") = {} => Own(u, "redo") = {}
            /\ \A j \in Own(u, "undo") : log[j].targetStrokeId # Null
            /\ seqRef[u] = Cardinality(own)
            /\ {log[i].seq : i \in own} = 0..(seqRef[u] - 1)
            /\ \A k \in DOMAIN toRelay[u] :
                  \/ JSONparse(toRelay[u][k]).type = "cursor"
                  \/ \E i \in own : log[i] = JSONparse(toRelay[u][k])

\* the participant is drawing its first stroke and holds the stroke_end and
\* the undo of a peer: it has no target of its own for an undo or a redo
C9_Witness ==
    /\ Own(Me, "stroke_start") # {}
    /\ Own(Me, "stroke_end") = {}
    /\ \E i \in Of(events[Me], "stroke_end") : events[Me][i].userId # UserId(Me)
    /\ \E i \in Of(events[Me], "undo") : events[Me][i].userId # UserId(Me)

\* the two logs hold the same events
SameContent(p, q) ==
    {events[p][i] : i \in DOMAIN events[p]} = {events[q][i] : i \in DOMAIN events[q]}

\* the index of event e in the sequence s
IndexOf(s, e) == CHOOSE i \in DOMAIN s : s[i] = e

\* C2 as claimed: two participants whose logs hold the same events order
\* them the same way.
C2_SameContentSameOrder ==
    \A p, q \in Users :
        SameContent(p, q) => SortBySeq(events[p]) = SortBySeq(events[q])

\* C2 amended: two participants whose logs hold the same events order every
\* two events of different seq the same way, the smaller seq first, so the
\* two orders are equal when no two events share a seq; events of equal seq
\* stay in the order of their admission.
C2_SameOrderUpToEqualSeq ==
    \A p, q \in Users :
        SameContent(p, q) =>
            LET sp == SortBySeq(events[p])
                sq == SortBySeq(events[q])
            IN  /\ Len(sp) = Len(sq)
                /\ \A i, j \in DOMAIN sp :
                      /\ sp[i].seq < sp[j].seq
                            => i < j /\ IndexOf(sq, sp[i]) < IndexOf(sq, sp[j])
                      /\ (sp[i].seq = sp[j].seq /\ i < j)
                            => IndexOf(events[p], sp[i]) < IndexOf(events[p], sp[j])
                /\ (\A i, j \in DOMAIN sp : sp[i].seq = sp[j].seq => i = j)
                      => sp = sq

\* two participants admitted the same three events in different orders, and
\* the admission order of one of them is not its seq order
C2_Witness ==
    \E p, q \in Participants :
        /\ SameContent(p, q)
        /\ Len(events[p]) = 3
        /\ events[p] # events[q]
        /\ events[p] # SortBySeq(events[p])

\* the participant that created the events carrying userId
Creator(userId) == CHOOSE u \in Users : UserId(u) = userId

\* C10: ownership scoping.  In every log, an undo event of user U targets a
\* stroke whose stroke_end U created, so every event of that stroke in any
\* log is an event of U; a redo event of user U targets an undo event U
\* created.
C10_OwnershipScoping ==
    \A p \in Users :
        LET log == events[p]
        IN  /\ \A i \in Of(log, "undo") :
                  LET U == Creator(log[i].userId)
                  IN  /\ \E k \in Own(U, "stroke_end") :
                            events[U][k].strokeId = log[i].targetStrokeId
                      /\ \A q \in Users : \A k \in OfStroke(events[q], log[i].targetStrokeId) :
                            events[q][k].userId = log[i].userId
            /\ \A j \in Of(log, "redo") :
                  LET U == Creator(log[j].userId)
                  IN  /\ \E k \in Own(U, "undo") :
                            events[U][k].id = log[j].targetUndoEventId
                      /\ \A q \in Users : \A k \in Of(events[q], "undo") :
                            events[q][k].id = log[j].targetUndoEventId
                            => events[q][k].userId = log[j].userId

\* a participant holds the stroke of a peer, the peer's undo of it and the
\* peer's redo of that undo
C10_Witness ==
    \E p \in Participants :
        /\ \E i \in Of(events[p], "undo") : events[p][i].userId # UserId(p)
        /\ \E j \in Of(events[p], "redo") : events[p][j].userId # UserId(p)
        /\ \E S \in Strokes(events[p]) : Shown(p, S)

\* C7: relay exclusion.  When the relay takes a frame from connection x, the
\* frame joins, unchanged, the queue of every other connection that is open,
\* and the queue of x and the queues of the connections not open stay as
\* they are; no connection ever has a frame of its own user in its queue.
C7_RelayExclusion ==
    /\ [](\A x \in Users : \A k \in DOMAIN toClient[x] :
            JSONparse(toClient[x][k]).userId # UserId(x))
    /\ [][\A x \in Users :
            (toRelay[x] # <<>> /\ toRelay'[x] = Tail(toRelay[x]) /\ clients' = clients)
            => /\ toClient'[x] = toClient[x]
               /\ \A c \in Users \ {x} :
                     toClient'[c] = IF clients[c] = "OPEN"
                                    THEN Append(toClient[c], Head(toRelay[x]))
                                    ELSE toClient[c]]_vars

\* a frame of one connection is in the queues of the two others
C7_Witness ==
    \E x \in Users :
        /\ toClient[x] = <<>>
        /\ \A c \in Users \ {x} :
              /\ toClient[c] # <<>>
              /\ JSONparse(toClient[c][1]).userId = UserId(x)

\* C11: the render order is the stable sort of the log by seq.  The ordered
\* sequence of redraw holds the events of the log, each once; of two of its
\* events the one with the smaller seq comes first, and two events of equal
\* seq come in the order in which they were appended to the log.
C11_StableSortBySeq ==
    \A u \in Users :
        LET log == events[u]
            ordered == SortBySeq(log)
        IN  /\ Len(ordered) = Len(log)
            /\ \A i \in DOMAIN log : \E k \in DOMAIN ordered : ordered[k] = log[i]
            /\ \A i, j \in DOMAIN ordered :
                  /\ ordered[i].seq < ordered[j].seq => i < j
                  /\ (ordered[i].seq = ordered[j].seq /\ i < j)
                        => IndexOf(log, ordered[i]) < IndexOf(log, ordered[j])

\* a log appended out of seq order that holds two events of equal seq, the
\* event of the peer appended before the event of the participant
C11_Witness ==
    LET log == events[Me]
    IN  /\ \E i, j \in DOMAIN log : i < j /\ log[i].seq > log[j].seq
        /\ \E i, j \in DOMAIN log :
              /\ i < j /\ log[i].seq = log[j].seq
              /\ log[i].userId # UserId(Me) /\ log[j].userId = UserId(Me)
        /\ SortBySeq(log) # log

\* socket.onmessage of u takes the frame at the head of its queue in this step
Receives(u) == toClient[u] # <<>> /\ toClient'[u] = Tail(toClient[u])

\* the frame is JSON and the object it holds has that type
HasType(frame, type) == ~ParseThrows(frame) /\ Get(JSONparse(frame), "type") = type

\* C12: presence updates bypass the log.  The receipt of a cursor message,
\* whatever fields it carries, leaves the log and the seen set as they are,
\* and no entry of a log is a cursor object; a step that changes the log of
\* a participant (an event received, an event created) leaves its presence
\* map as it is, and a step that changes the presence map leaves the log
\* and the seen set as they are.
C12_PresenceBypassesLog ==
    /\ [](\A u \in Users : \A i \in DOMAIN events[u] :
            Get(events[u][i], "type") # "cursor")
    /\ [][\A u \in Users :
            /\ (Receives(u) /\ HasType(Head(toClient[u]), "cursor"))
                  => events'[u] = events[u] /\ seenEventIds'[u] = seenEventIds[u]
            /\ (events'[u] # events[u] \/ seenEventIds'[u] # seenEventIds[u])
                  => cursors'[u] = cursors[u]
            /\ cursors'[u] # cursors[u]
                  => events'[u] = events[u] /\ seenEventIds'[u] = seenEventIds[u]]_vars

\* the slot of a peer holds a cursor object that carries an id and a seq,
\* the id was not added to the seen set, and the log holds an event of the
\* participant and an event of the peer
C12_Witness ==
    /\ "u2" \in DOMAIN cursors[Me]
    /\ "id" \in DOMAIN cursors[Me]["u2"]
    /\ cursors[Me]["u2"].id \notin seenEventIds[Me]
    /\ \E i \in DOMAIN events[Me] : Get(events[Me][i], "userId") = UserId(Me)
    /\ \E i \in DOMAIN events[Me] : Get(events[Me][i], "userId") = "u2"

\* the object has the members the wire format asks of its shape: a presence
\* object has userId, x, y and color, an event object has id, seq and userId
WireFormat(data) ==
    /\ "type" \in DOMAIN data
    /\ IF data.type = "cursor" THEN {"userId", "x", "y", "color"} \subseteq DOMAIN data
       ELSE {"id", "seq", "userId"} \subseteq DOMAIN data

\* the payload is not JSON, or is JSON that does not follow the wire format
Malformed(frame) == ParseThrows(frame) \/ ~WireFormat(JSONparse(frame))

\* C13: a malformed or unparseable payload is dropped.  The receipt of such
\* a frame leaves the log, the seen set and the presence map of the
\* participant as they are, and the connection open for the next frame.
C13_MalformedDropped ==
    [][\A u \in Users :
        (Receives(u) /\ Malformed(Head(toClient[u])))
        => /\ events'[u] = events[u]
           /\ seenEventIds'[u] = seenEventIds[u]
           /\ cursors'[u] = cursors[u]
           /\ readyState'[u] = readyState[u]]_vars

\* the types of the wire format
KnownTypes == {"stroke_start", "stroke_move", "stroke_end", "undo", "redo", "cursor"}

\* C14: a message of a type that is not known is dropped.  The receipt of a
\* frame whose type is none of the known ones leaves the log as it is, and
\* with it the undone strokes and the drawn events, and the connection open
\* for the next frame.
C14_UnknownTypeDropped ==
    [][\A u \in Users :
        (/\ Receives(u)
         /\ ~ParseThrows(Head(toClient[u]))
         /\ Get(JSONparse(Head(toClient[u])), "type") \notin KnownTypes)
        => /\ events'[u] = events[u]
           /\ UndoneStrokes(SortBySeq(events'[u])) = UndoneStrokes(SortBySeq(events[u]))
           /\ Drawn(events'[u]) = Drawn(events[u])
           /\ readyState'[u] = readyState[u]]_vars

\* the relay takes the frame at the head of the queue of connection x in
\* this step
RelayTakes(x) ==
    toRelay[x] # <<>> /\ toRelay'[x] = Tail(toRelay[x]) /\ clients' = clients

\* C15: relay best-effort delivery.  When the relay takes a frame of x, a
\* connection that is not open gets nothing, the open ones get the frame,
\* and the sender's log, seen set, presence map, socket and inbound queue are
\* as before; a queue only ever grows by the frame the relay is taking from
\* another connection in that very step, and only while its connection is
\* open, so a frame that was skipped is not sent later.
C15_BestEffort ==
    [][/\ \A x \in Users :
            RelayTakes(x)
            => /\ \A c \in Users \ {x} :
                     IF clients[c] # "OPEN" THEN toClient'[c] = toClient[c]
                     ELSE toClient'[c] = Append(toClient[c], Head(toRelay[x]))
               /\ events'[x] = events[x] /\ seenEventIds'[x] = seenEventIds[x]
               /\ cursors'[x] = cursors[x] /\ readyState'[x] = readyState[x]
               /\ toClient'[x] = toClient[x]
       /\ \A c \in Users :
            Len(toClient'[c]) > Len(toClient[c])
            => /\ clients[c] = "OPEN"
               /\ \E x \in Users \ {c} :
                     /\ RelayTakes(x)
                     /\ toClient'[c] = Append(toClient[c], Head(toRelay[x]))]_vars

\* a connection that is closing never got a frame (its queue and its
\* presence map are empty), while the frame of a sender is in the queue of a
\* third connection, and the sender has nothing left to send
C15_Witness ==
    \E x, y, c \in Users :
        /\ x # y /\ y # c /\ x # c
        /\ clients[c] = "CLOSING" /\ readyState[c] = "CLOSED"
        /\ toClient[c] = <<>> /\ cursors[c] = <<>>
        /\ toClient[y] # <<>> /\ JSONparse(toClient[y][1]).userId = UserId(x)
        /\ toRelay[x] = <<>>

\* the events a participant holds or that are in flight: the entries of the
\* logs and the event frames of the queues
EventFrames(queue) ==
    {JSONparse(queue[k]) : k \in {i \in DOMAIN queue : ~HasType(queue[i], "cursor")}}

Known ==
    UNION {{events[p][i] : i \in DOMAIN events[p]} : p \in Users}
        \cup UNION {EventFrames(toRelay[p]) \cup EventFrames(toClient[p]) : p \in Users}

\* C16: seq is strictly increasing within the stream of one origin.  Of two
\* events of the same user, the one created later (its id came from a later
\* uuid() call) has the greater seq, so no two events of one user share a
\* seq, in any log or queue; in the log of their creator the events of a
\* user stand in increasing seq.
C16_SeqIncreasingPerOrigin ==
    /\ \A e, f \in Known :
          e.userId = f.userId
          => /\ e.id[2] < f.id[2] => e.seq < f.seq
             /\ e.seq = f.seq => e = f
    /\ \A u \in Users : \A i, j \in DOMAIN events[u] :
          (i < j /\ events[u][i].userId = UserId(u) /\ events[u][j].userId = UserId(u))
          => events[u][i].seq < events[u][j].seq

\* a log holds two events of one user and an event of another user with
\* the seq of one of them
C16_Witness ==
    \E p \in Participants : \E i, j, k \in DOMAIN events[p] :
        /\ i # j
        /\ events[p][i].userId = events[p][j].userId
        /\ events[p][k].userId # events[p][i].userId
        /\ events[p][k].seq = events[p][i].seq
        /\ events[p][i].userId # UserId(p)

\* s is the beginning of t
IsPrefix(s, t) == Len(s) <= Len(t) /\ SubSeq(t, 1, Len(s)) = s

\* C17: the log is append-only.  Every step leaves the log of every
\* participant as the beginning of its next log, longer by one entry at
\* most; so the events of a stroke stay where they are, as they are, when an
\* undo or a redo that targets the stroke joins the log.
C17_AppendOnly ==
    [][\A u \in Users :
        /\ IsPrefix(events[u], events'[u])
        /\ Len(events'[u]) <= Len(events[u]) + 1
        /\ seenEventIds[u] \subseteq seenEventIds'[u]]_vars

\* the log holds the stroke of a peer before the undo of it, and a stroke of
\* the participant before the undo of it and the redo of that undo
C17_Witness ==
    LET log == events[Me]
    IN  /\ \E i \in Of(log, "stroke_start") : \E j \in Of(log, "undo") :
              /\ i < j /\ log[i].userId # UserId(Me)
              /\ log[j].targetStrokeId = log[i].strokeId
        /\ \E i \in Own(Me, "stroke_end") : \E j \in Own(Me, "undo") :
           \E k \in Own(Me, "redo") :
              /\ i < j /\ j < k
              /\ log[j].targetStrokeId = log[i].strokeId
              /\ log[k].targetUndoEventId = log[j].id

\* C18: local admission comes first.  Every event in a log, and every event
\* frame on its way to the relay or from it, is an entry of the log of the
\* participant that created it, and its id is in the seen set of that
\* participant.
C18_AdmittedByCreator ==
    \A e \in Known :
        LET U == Creator(e.userId)
        IN  /\ \E i \in DOMAIN events[U] : events[U][i] = e
            /\ e.id \in seenEventIds[U]

\* an event is on its way to the relay, and an event of the same creator
\* is on its way to a peer whose log does not hold it yet
C18_Witness ==
    \E p, q \in Participants :
        /\ p # q
        /\ \E e \in EventFrames(toRelay[p]) : e.userId = UserId(p)
        /\ \E e \in EventFrames(toClient[q]) :
              /\ e.userId = UserId(p)
              /\ e.id \notin seenEventIds[q]
              /\ \E i \in DOMAIN events[p] : events[p][i] = e

\* the strokes of which redraw draws an event
VisibleStrokes(evs) == {Drawn(evs)[k].strokeId : k \in DOMAIN Drawn(evs)}

\* C19: the visible strokes depend only on the set of events of the log.
\* Two participants whose logs hold the same event ids compute the same
\* hidden strokes and draw the same strokes, in whatever order the events
\* arrived: also an undo before the events of its stroke, a redo before the
\* undo it targets.
C19_VisibilityOrderFree ==
    \A p, q \in Users :
        Ids(events[p]) = Ids(events[q])
        => /\ HiddenStrokes(events[p]) = HiddenStrokes(events[q])
           /\ VisibleStrokes(events[p]) = VisibleStrokes(events[q])

\* two logs of the same four events: one received the redo first, then the
\* undo, then the stroke; the other did not; both show the stroke
C19_Witness ==
    \E p, q \in Receivers :
        /\ Ids(events[p]) = Ids(events[q])
        /\ events[p] # events[q]
        /\ Len(events[p]) = 4
        /\ [i \in 1..4 |-> events[p][i].type] = <<"redo", "undo", "stroke_end", "stroke_start">>
        /\ events[q] = SortBySeq(events[q])
        /\ HiddenStrokes(events[p]) = {}
        /\ VisibleStrokes(events[p]) = {PeerStroke}

\* the participants hold the same events and agree on the strokes to show
Converged ==
    \A p, q \in Participants :
        /\ Ids(events[p]) = Ids(events[q])
        /\ HiddenStrokes(events[p]) = HiddenStrokes(events[q])
        /\ VisibleStrokes(events[p]) = VisibleStrokes(events[q])

\* no event frame is on its way
Delivered ==
    \A u \in Users : EventFrames(toRelay[u]) = {} /\ EventFrames(toClient[u]) = {}

====
